---- MODULE Spec2Model ----
(***************************************************************************)
(* Model of saldos.py: the spreadsheet of bank balances is loaded, its     *)
(* columns are normalised, the amounts are signed by the credit/debit      *)
(* indicator, the records are filtered by the sidebar selections, summed   *)
(* per department / account / fund type and exported.                      *)
(*                                                                         *)
(* A text is a tuple of one-character strings, <<"A", " ">> for "A ".      *)
(* The characters a-tilde and A-tilde are written "a~" and "A~".           *)
(* A cell (and every value of a pandas Series) is a record                 *)
(*   [k |-> kind, s |-> text, n |-> number]                                *)
(* of kind "na" (NaN / NaT / empty cell), "str", "num" or "ts".            *)
(* Amounts are whole numbers (centavos); a timestamp n is the tick         *)
(* n % TicksPerDay of the day n \div TicksPerDay.                          *)
(***************************************************************************)
EXTENDS Integers, Sequences, FiniteSets, TLC

VARIABLES
    pc,             \* position of the script
    uploaded,       \* a workbook is available (uploaded, or the default file)
    message,        \* the last st.info / st.warning / st.error shown
    df_raw,         \* the sheet as read
    has_date, has_type, has_conta, has_tipo_recurso,
    credit_tokens, debit_tokens,
    df,             \* the working table
    sel_depts, sel_accts, sel_funds, d_ini, d_fim,
    df_f,           \* the filtered table
    total_geral, by_dept, by_acct, by_fund, cube,
    exports         \* the tables handed to the download buttons

vars == <<pc, uploaded, message, df_raw, has_date, has_type, has_conta,
          has_tipo_recurso, credit_tokens, debit_tokens, df, sel_depts,
          sel_accts, sel_funds, d_ini, d_fim, df_f, total_geral, by_dept,
          by_acct, by_fund, cube, exports>>

-----------------------------------------------------------------------------
(* Bounds of the model *)

MaxRows == 2        \* rows of a sheet
MaxTokens == 2      \* tokens of a credit / debit list
MaxPad == 1         \* blanks around a fund-type text
TicksPerDay == 2    \* instants of a day

-----------------------------------------------------------------------------
(* Values *)

NA == [k |-> "na", s |-> <<>>, n |-> 0]
Str(t) == [k |-> "str", s |-> t, n |-> 0]
Num(x) == [k |-> "num", s |-> <<>>, n |-> x]
Ts(x) == [k |-> "ts", s |-> <<>>, n |-> x]

isna(c) == c.k = "na"
notna(c) == ~isna(c)

None == NA      \* Python's None, for d_ini / d_fim

-----------------------------------------------------------------------------
(* Text *)

UpperCase == <<"A", "B", "C", "D", "E", "F", "G", "H", "I", "J", "K", "L", "M",
               "N", "O", "P", "Q", "R", "S", "T", "U", "V", "W", "X", "Y", "Z",
               "A~">>
LowerCase == <<"a", "b", "c", "d", "e", "f", "g", "h", "i", "j", "k", "l", "m",
               "n", "o", "p", "q", "r", "s", "t", "u", "v", "w", "x", "y", "z",
               "a~">>

\* the characters in code-point order
CodePoints == <<" ", "-", "0", "1", "2", "3", "4", "5", "6", "7", "8", "9">>
              \o UpperCase \o LowerCase

Range(f) == {f[i] : i \in DOMAIN f}

IndexOf(c, t) == CHOOSE i \in DOMAIN t : t[i] = c

upper_char(c) == IF c \in Range(LowerCase) THEN UpperCase[IndexOf(c, LowerCase)] ELSE c
lower_char(c) == IF c \in Range(UpperCase) THEN LowerCase[IndexOf(c, UpperCase)] ELSE c

upper(t) == [i \in DOMAIN t |-> upper_char(t[i])]
lower(t) == [i \in DOMAIN t |-> lower_char(t[i])]

RECURSIVE lstrip(_)
lstrip(t) == IF t # <<>> /\ Head(t) = " " THEN lstrip(Tail(t)) ELSE t

RECURSIVE rstrip(_)
rstrip(t) ==
    IF t # <<>> /\ t[Len(t)] = " " THEN rstrip(SubSeq(t, 1, Len(t) - 1)) ELSE t

strip(t) == rstrip(lstrip(t))

ord(c) == IndexOf(c, CodePoints)

\* t < u as Python compares two str
RECURSIVE str_lt(_, _)
str_lt(t, u) ==
    IF u = <<>> THEN FALSE
    ELSE IF t = <<>> THEN TRUE
    ELSE IF Head(t) = Head(u) THEN str_lt(Tail(t), Tail(u))
    ELSE ord(Head(t)) < ord(Head(u))

str_le(t, u) == t = u \/ str_lt(t, u)

Digits == <<"0", "1", "2", "3", "4", "5", "6", "7", "8", "9">>

\* str() of a whole number
RECURSIVE nat_str(_)
nat_str(x) ==
    IF x < 10 THEN <<Digits[x + 1]>>
    ELSE nat_str(x \div 10) \o <<Digits[(x % 10) + 1]>>

int_str(x) == IF x < 0 THEN <<"-">> \o nat_str(-x) ELSE nat_str(x)

RECURSIVE digits_val(_, _)
digits_val(t, acc) ==
    IF t = <<>> THEN acc
    ELSE digits_val(Tail(t), 10 * acc + (IndexOf(Head(t), Digits) - 1))

is_digits(t) == t # <<>> /\ \A i \in DOMAIN t : t[i] \in Range(Digits)

\* Series.astype(str): every value becomes a str, a missing one the str "nan"
\* (object-dtype strings, pandas before 3.0)
astype_str(c) ==
    CASE c.k = "na" -> Str(<<"n", "a", "n">>)
      [] c.k = "str" -> Str(c.s)
      [] c.k = "num" -> Str(int_str(c.n))

\* the .str accessor: element-wise, a missing value stays missing
str_strip(c) == IF isna(c) THEN NA ELSE Str(strip(c.s))
str_upper(c) == IF isna(c) THEN NA ELSE Str(upper(c.s))
str_lower(c) == IF isna(c) THEN NA ELSE Str(lower(c.s))

\* pd.to_numeric(errors="coerce") of one cell
to_numeric(c) ==
    CASE c.k = "num" -> Num(c.n)
      [] c.k = "na" -> NA
      [] c.k = "ts" -> NA
      [] c.k = "str" ->
            LET t == strip(c.s) IN
            IF is_digits(t) THEN Num(digits_val(t, 0))
            ELSE IF t # <<>> /\ Head(t) = "-" /\ is_digits(Tail(t))
                 THEN Num(-digits_val(Tail(t), 0))
            ELSE NA

abs(x) == IF x < 0 THEN -x ELSE x

\* Series.abs() and unary minus of one value: NaN stays NaN
val_abs(v) == IF isna(v) THEN NA ELSE Num(abs(v.n))
val_neg(v) == IF isna(v) THEN NA ELSE Num(-v.n)

-----------------------------------------------------------------------------
(* sign_by_type *)

\* the tokens as typed, neither trimmed nor upper-cased
token_set_as_typed(tokens) == {tokens[i] : i \in {j \in DOMAIN tokens : tokens[j] # <<>>}}

token_set(tokens) ==
    {upper(strip(tokens[i])) : i \in {j \in DOMAIN tokens : strip(tokens[j]) # <<>>}}

\* the debit assignment before the credit one
sign_by_type_credit_last(table, no_type, c_tokens, d_tokens) ==
    LET vals == [i \in DOMAIN table |-> to_numeric(table[i].valor)]
        t == [i \in DOMAIN table |-> str_upper(str_strip(astype_str(table[i].lcto)))]
        is_credit == [i \in DOMAIN table |-> t[i].s \in token_set(c_tokens)]
        is_debit == [i \in DOMAIN table |-> t[i].s \in token_set(d_tokens)]
        signed1 == [i \in DOMAIN table |->
                        IF is_debit[i] THEN val_neg(val_abs(vals[i])) ELSE vals[i]]
        signed2 == [i \in DOMAIN table |->
                        IF is_credit[i] THEN val_abs(vals[i]) ELSE signed1[i]]
    IN  IF no_type THEN vals ELSE signed2

\* the column the function returns; amount_col is "valor", type_col "lcto";
\* no_type stands for type_col is None
sign_by_type(table, no_type, c_tokens, d_tokens) ==
    LET vals == [i \in DOMAIN table |-> to_numeric(table[i].valor)]
        t == [i \in DOMAIN table |-> str_upper(str_strip(astype_str(table[i].lcto)))]
        credit_set == token_set(c_tokens)
        debit_set == token_set(d_tokens)
        is_credit == [i \in DOMAIN table |-> t[i].s \in credit_set]
        is_debit == [i \in DOMAIN table |-> t[i].s \in debit_set]
        signed1 == [i \in DOMAIN table |->
                        IF is_credit[i] THEN val_abs(vals[i]) ELSE vals[i]]
        signed2 == [i \in DOMAIN table |->
                        IF is_debit[i] THEN val_neg(val_abs(vals[i])) ELSE signed1[i]]
    IN  IF no_type THEN vals ELSE signed2

-----------------------------------------------------------------------------
(* Sheets *)

Row(sec, conta, tipo, valor, data, lcto) ==
    [secretaria |-> sec, conta |-> conta, tipo |-> tipo, valor |-> valor,
     data |-> data, lcto |-> lcto]

At(day, tick) == Ts(day * TicksPerDay + tick)

\* the rows a modelled sheet is made of
SheetRows ==
    { Row(Str(<<"A">>), Str(<<"1">>), Str(<<"l", "i", "v", "r", "e">>),
          Num(3), At(1, 0), Str(<<"C">>)),
      Row(Str(<<" ", "A", " ">>), Str(<<"2">>),
          Str(<<"V", "i", "n", "c", "u", "l", "a", "d", "a">>),
          Num(2), At(2, 1), Str(<<" ", "d">>)),
      Row(Str(<<"B">>), Num(1), Str(<<"x">>),
          Str(<<"-", "1">>), NA, Str(<<"X">>)),
      Row(NA, Str(<<"2">>), Str(<<"l", "i", "v", "r", "e">>),
          Num(1), At(1, 1), Str(<<"C">>)),
      Row(Str(<<" ">>), Str(<<"1">>), NA,
          Num(5), At(2, 0), Str(<<"D">>)),
      Row(Str(<<"B">>), Str(<<"2">>), Str(<<"L", "I", "V", "R", "E", " ">>),
          Str(<<"x">>), At(2, 0), Str(<<"C">>)) }

SeqsUpTo(S, n) == UNION {[1..m -> S] : m \in 0..n}

Sheets == SeqsUpTo(SheetRows, MaxRows)

\* the texts of the two "Mapeamento C/D" inputs, split at the commas
TokenInputs ==
    { [credit |-> <<<<"C">>, <<" ", "C", "R">>,
                    <<" ", "C", "R", "E", "D", "I", "T", "O">>>>,
       debit |-> <<<<"D">>, <<" ", "D", "B">>,
                   <<" ", "D", "E", "B", "I", "T", "O">>>>],
      [credit |-> <<<<"c">>, <<"x">>>>,
       debit |-> <<<<" ", "c">>, <<>>>>] }

-----------------------------------------------------------------------------
(* Columns *)

\* table with the column col set to the values vals
assign(table, col, vals) ==
    [i \in DOMAIN table |-> (col :> vals[i]) @@ table[i]]

\* the rows of table at which keep holds
RECURSIVE select(_, _)
select(table, keep) ==
    IF table = <<>> THEN <<>>
    ELSE LET rest == select(Tail(table), Tail(keep))
         IN  IF Head(keep) THEN <<Head(table)>> \o rest ELSE rest

\* parse_dates: a date cell is a timestamp; no other cell of the modelled
\* sheets reads as a date
parse_dates(c) == IF c.k = "ts" THEN Ts(c.n) ELSE NA

FundMap ==
    { <<<<"l", "i", "v", "r", "e">>, <<"L", "i", "v", "r", "e">>>>,
      <<<<"v", "i", "n", "c", "u", "l", "a", "d", "o">>,
        <<"V", "i", "n", "c", "u", "l", "a", "d", "o">>>>,
      <<<<"v", "i", "n", "c", "u", "l", "a", "d", "a">>,
        <<"V", "i", "n", "c", "u", "l", "a", "d", "o">>>>,
      <<<<"n", "a", "o", " ", "l", "i", "v", "r", "e">>,
        <<"V", "i", "n", "c", "u", "l", "a", "d", "o">>>>,
      <<<<"n", "a~", "o", " ", "l", "i", "v", "r", "e">>,
        <<"V", "i", "n", "c", "u", "l", "a", "d", "o">>>>,
      <<<<"n", "a", "o", "-", "v", "i", "n", "c", "u", "l", "a", "d", "o">>,
        <<"L", "i", "v", "r", "e">>>>,
      <<<<"n", "a~", "o", "-", "v", "i", "n", "c", "u", "l", "a", "d", "o">>,
        <<"L", "i", "v", "r", "e">>>> }

\* Series.map(dict) of one value: a value that is no key becomes missing
map_fund(c) ==
    IF notna(c) /\ \E e \in FundMap : e[1] = c.s
    THEN Str((CHOOSE e \in FundMap : e[1] = c.s)[2])
    ELSE NA

fillna(c, other) == IF isna(c) THEN other ELSE c

\* the table looked up without lower-casing
fundtype_cased(c) ==
    fillna(map_fund(str_strip(astype_str(c))), str_strip(astype_str(c)))

\* the value of _fundtype for one cell of the fund-type column
fundtype(c) ==
    fillna(map_fund(str_lower(str_strip(astype_str(c)))), str_strip(astype_str(c)))

SemConta == <<"S", "e", "m", " ", "c", "o", "n", "t", "a">>
NaoInformado == <<"N", "a~", "o", " ", "i", "n", "f", "o", "r", "m", "a", "d", "o">>

\* a table never taken for empty
empty_never(table) == FALSE

\* DataFrame.empty
empty(table) == table = <<>>

-----------------------------------------------------------------------------
(* The script, top to bottom *)

Unset == <<>>

Init ==
    /\ pc = "input"
    /\ uploaded = FALSE
    /\ message = "none"
    /\ df_raw = Unset
    /\ has_date = FALSE /\ has_type = FALSE
    /\ has_conta = FALSE /\ has_tipo_recurso = FALSE
    /\ credit_tokens = <<>> /\ debit_tokens = <<>>
    /\ df = Unset
    /\ sel_depts = {} /\ sel_accts = {} /\ sel_funds = {}
    /\ d_ini = None /\ d_fim = None
    /\ df_f = Unset
    /\ total_geral = 0
    /\ by_dept = Unset /\ by_acct = Unset /\ by_fund = Unset /\ cube = Unset
    /\ exports = Unset

\* st.stop() after a message
Stop(msg) == message' = msg /\ pc' = "stopped"

\* lines 53-67: the uploader, the default-file toggle, the first halt
Input ==
    /\ pc = "input"
    /\ \E file \in BOOLEAN, use_default \in BOOLEAN, readable \in BOOLEAN :
          /\ uploaded' = (file \/ (use_default /\ readable))
          /\ IF uploaded' THEN pc' = "open" /\ message' = message
             ELSE Stop("Envie a planilha .xlsx (ou habilite o padrao).")
    /\ UNCHANGED <<df_raw, has_date, has_type, has_conta, has_tipo_recurso,
                   credit_tokens, debit_tokens, df, sel_depts, sel_accts,
                   sel_funds, d_ini, d_fim, df_f, total_geral, by_dept, by_acct,
                   by_fund, cube, exports>>

\* lines 70-75: pd.ExcelFile opens the workbook or raises
OpenExcel ==
    /\ pc = "open"
    /\ \E raised \in BOOLEAN :
          IF raised THEN Stop("Falha ao abrir o Excel")
          ELSE pc' = "read" /\ message' = message
    /\ UNCHANGED <<uploaded, df_raw, has_date, has_type, has_conta,
                   has_tipo_recurso, credit_tokens, debit_tokens, df, sel_depts,
                   sel_accts, sel_funds, d_ini, d_fim, df_f, total_geral,
                   by_dept, by_acct, by_fund, cube, exports>>

\* lines 77-86: the chosen sheet is read (or the read raises); an empty sheet halts
ReadSheet ==
    /\ pc = "read"
    /\ \E raised \in BOOLEAN, sheet \in Sheets :
          IF raised THEN Stop("Falha ao ler a aba") /\ df_raw' = df_raw
          ELSE /\ df_raw' = sheet
               /\ IF empty(sheet) THEN Stop("A aba selecionada esta vazia.")
                  ELSE pc' = "map" /\ message' = message
    /\ UNCHANGED <<uploaded, has_date, has_type, has_conta, has_tipo_recurso,
                   credit_tokens, debit_tokens, df, sel_depts, sel_accts,
                   sel_funds, d_ini, d_fim, df_f, total_geral, by_dept, by_acct,
                   by_fund, cube, exports>>

\* lines 88-113: the column mapping, the credit/debit token lists, df = df_raw.copy()
Mapping ==
    /\ pc = "map"
    /\ \E hd \in BOOLEAN, ht \in BOOLEAN, hc \in BOOLEAN, hr \in BOOLEAN,
          tk \in TokenInputs :
          /\ has_date' = hd /\ has_type' = ht
          /\ has_conta' = hc /\ has_tipo_recurso' = hr
          /\ credit_tokens' = IF ht THEN tk.credit ELSE <<>>
          /\ debit_tokens' = IF ht THEN tk.debit ELSE <<>>
    /\ df' = df_raw
    /\ pc' = "datas"
    /\ UNCHANGED <<uploaded, message, df_raw, sel_depts, sel_accts, sel_funds,
                   d_ini, d_fim, df_f, total_geral, by_dept, by_acct, by_fund,
                   cube, exports>>

\* lines 116-119
Datas ==
    /\ pc = "datas"
    /\ df' = assign(df, "_date",
                    [i \in DOMAIN df |->
                        IF has_date THEN parse_dates(df[i].data) ELSE NA])
    /\ pc' = "valor"
    /\ UNCHANGED <<uploaded, message, df_raw, has_date, has_type, has_conta,
                   has_tipo_recurso, credit_tokens, debit_tokens, sel_depts,
                   sel_accts, sel_funds, d_ini, d_fim, df_f, total_geral,
                   by_dept, by_acct, by_fund, cube, exports>>

\* lines 122-124
ValorAssinado ==
    /\ pc = "valor"
    /\ df' = assign(df, "_amount",
                    sign_by_type(df, ~has_type, credit_tokens, debit_tokens))
    /\ pc' = "chaves"
    /\ UNCHANGED <<uploaded, message, df_raw, has_date, has_type, has_conta,
                   has_tipo_recurso, credit_tokens, debit_tokens, sel_depts,
                   sel_accts, sel_funds, d_ini, d_fim, df_f, total_geral,
                   by_dept, by_acct, by_fund, cube, exports>>

\* lines 127-139
chaves(table, conta, tipo_recurso) ==
    LET t1 == assign(table, "_dept",
                     [i \in DOMAIN table |->
                         str_strip(astype_str(table[i].secretaria))])
        t2 == assign(t1, "_account",
                     [i \in DOMAIN table |->
                         IF conta THEN str_strip(astype_str(table[i].conta))
                         ELSE Str(SemConta)])
    IN  assign(t2, "_fundtype",
               [i \in DOMAIN table |->
                   IF tipo_recurso THEN fundtype(table[i].tipo)
                   ELSE Str(NaoInformado)])

Chaves ==
    /\ pc = "chaves"
    /\ df' = chaves(df, has_conta, has_tipo_recurso)
    /\ pc' = "limpeza"
    /\ UNCHANGED <<uploaded, message, df_raw, has_date, has_type, has_conta,
                   has_tipo_recurso, credit_tokens, debit_tokens, sel_depts,
                   sel_accts, sel_funds, d_ini, d_fim, df_f, total_geral,
                   by_dept, by_acct, by_fund, cube, exports>>

\* lines 142-143
limpeza(table) ==
    LET t1 == select(table, [i \in DOMAIN table |->
                                ~isna(table[i]._dept) /\ table[i]._dept.s # <<>>])
    IN  select(t1, [i \in DOMAIN t1 |-> ~isna(t1[i]._amount)])

Limpeza ==
    /\ pc = "limpeza"
    /\ df' = limpeza(df)
    /\ pc' = "filtros"
    /\ UNCHANGED <<uploaded, message, df_raw, has_date, has_type, has_conta,
                   has_tipo_recurso, credit_tokens, debit_tokens, sel_depts,
                   sel_accts, sel_funds, d_ini, d_fim, df_f, total_geral,
                   by_dept, by_acct, by_fund, cube, exports>>

-----------------------------------------------------------------------------
(* Filters *)

\* Series.dt.date of one value
dt_date(c) == IF isna(c) THEN NA ELSE Num(c.n \div TicksPerDay)

\* a comparison with NaT is False
date_ge(a, b) == notna(a) /\ a.n >= b.n
date_le(a, b) == notna(a) /\ a.n <= b.n

column(table, col) == {table[i][col].s : i \in DOMAIN table}

\* Series.isin of a list of str
isin(table, col, sel) == [i \in DOMAIN table |-> table[i][col].s \in sel]

\* an empty selection keeps no row
filtros_strict(table, date, depts, accts, funds, ini, fim) ==
    LET f1 == select(table, isin(table, "_dept", depts))
        f2 == select(f1, isin(f1, "_account", accts))
        f3 == select(f2, isin(f2, "_fundtype", funds))
        mask == [i \in DOMAIN f3 |->
                    date_ge(dt_date(f3[i]._date), ini) /\ date_le(dt_date(f3[i]._date), fim)]
    IN  IF date /\ notna(ini) /\ notna(fim) THEN select(f3, mask) ELSE f3

\* the selected departments left out instead of kept
filtros_exclude(table, date, depts, accts, funds, ini, fim) ==
    LET f1 == IF depts # {}
              THEN select(table, [i \in DOMAIN table |-> table[i]._dept.s \notin depts])
              ELSE table
        f2 == IF accts # {} THEN select(f1, isin(f1, "_account", accts)) ELSE f1
        f3 == IF funds # {} THEN select(f2, isin(f2, "_fundtype", funds)) ELSE f2
        mask == [i \in DOMAIN f3 |->
                    date_ge(dt_date(f3[i]._date), ini) /\ date_le(dt_date(f3[i]._date), fim)]
    IN  IF date /\ notna(ini) /\ notna(fim) THEN select(f3, mask) ELSE f3

\* the timestamps compared with the first instant of d_ini and of d_fim
filtros_instant(table, date, depts, accts, funds, ini, fim) ==
    LET f1 == IF depts # {} THEN select(table, isin(table, "_dept", depts)) ELSE table
        f2 == IF accts # {} THEN select(f1, isin(f1, "_account", accts)) ELSE f1
        f3 == IF funds # {} THEN select(f2, isin(f2, "_fundtype", funds)) ELSE f2
        mask == [i \in DOMAIN f3 |->
                    /\ notna(f3[i]._date)
                    /\ f3[i]._date.n >= ini.n * TicksPerDay
                    /\ f3[i]._date.n <= fim.n * TicksPerDay]
    IN  IF date /\ notna(ini) /\ notna(fim) THEN select(f3, mask) ELSE f3

\* lines 163-172: df_f
filtros(table, date, depts, accts, funds, ini, fim) ==
    LET f1 == IF depts # {} THEN select(table, isin(table, "_dept", depts)) ELSE table
        f2 == IF accts # {} THEN select(f1, isin(f1, "_account", accts)) ELSE f1
        f3 == IF funds # {} THEN select(f2, isin(f2, "_fundtype", funds)) ELSE f2
        mask == [i \in DOMAIN f3 |->
                    date_ge(dt_date(f3[i]._date), ini) /\ date_le(dt_date(f3[i]._date), fim)]
    IN  IF date /\ notna(ini) /\ notna(fim) THEN select(f3, mask) ELSE f3

\* the days of the non-missing dates of the table
days(table) == {dt_date(table[i]._date).n : i \in {j \in DOMAIN table : notna(table[j]._date)}}

Min(S) == CHOOSE x \in S : \A y \in S : x <= y
Max(S) == CHOOSE x \in S : \A y \in S : x >= y

\* lines 156-161: what the "Periodo" widget returns once both ends are picked,
\* a range of days within [min_d, max_d] (its default is the whole of it),
\* else (None, None)
periodos(table, date) ==
    IF date /\ days(table) # {}
    THEN {p \in {<<Num(a), Num(b)>> : a \in Min(days(table))..Max(days(table)),
                                        b \in Min(days(table))..Max(days(table))} :
             p[1].n <= p[2].n}
    ELSE {<<None, None>>}

\* lines 147-176: the multiselects return any part of their options
Filtros ==
    /\ pc = "filtros"
    /\ \E sd \in SUBSET column(df, "_dept"), sa \in SUBSET column(df, "_account"),
          sf \in SUBSET column(df, "_fundtype"), p \in periodos(df, has_date) :
          /\ sel_depts' = sd /\ sel_accts' = sa /\ sel_funds' = sf
          /\ d_ini' = p[1] /\ d_fim' = p[2]
          /\ df_f' = filtros(df, has_date, sd, sa, sf, p[1], p[2])
    /\ IF empty(df_f') THEN Stop("Nenhum dado apos aplicar os filtros.")
       ELSE pc' = "resumos" /\ message' = message
    /\ UNCHANGED <<uploaded, df_raw, has_date, has_type, has_conta,
                   has_tipo_recurso, credit_tokens, debit_tokens, df,
                   total_geral, by_dept, by_acct, by_fund, cube, exports>>

-----------------------------------------------------------------------------
(* Rollups *)

\* Series.sum of the _amount of the rows at which keep holds
RECURSIVE sum_where(_, _)
sum_where(table, keep) ==
    IF table = <<>> THEN 0
    ELSE (IF Head(keep) THEN Head(table)._amount.n ELSE 0)
         + sum_where(Tail(table), Tail(keep))

\* the texts of a set in ascending order
RECURSIVE sorted(_)
sorted(S) ==
    IF S = {} THEN <<>>
    ELSE LET m == CHOOSE x \in S : \A y \in S : str_le(x, y)
         IN  <<m>> \o sorted(S \ {m})

\* one row per key, holding the amount of the key's last record only
groupby_last(table, col) ==
    LET ks == sorted(column(table, col))
    IN  [j \in DOMAIN ks |->
            [key |-> ks[j],
             Saldo |-> table[Max({i \in DOMAIN table : table[i][col].s = ks[j]})]._amount.n]]

\* groupby(col, as_index=False)["_amount"].sum(): one row per key, keys ascending
groupby_sum(table, col) ==
    LET ks == sorted(column(table, col))
    IN  [j \in DOMAIN ks |->
            [key |-> ks[j],
             Saldo |-> sum_where(table, [i \in DOMAIN table |-> table[i][col].s = ks[j]])]]

\* the rows by ascending Saldo
sort_values_ascending(tbl) ==
    {q \in {[i \in DOMAIN tbl |-> tbl[f[i]]] : f \in Permutations(DOMAIN tbl)} :
        \A i \in DOMAIN q : \A j \in DOMAIN q : i < j => q[i].Saldo <= q[j].Saldo}

\* sort_values("Saldo", ascending=False): the sort is not stable, so rows of
\* equal Saldo come out in any order
sort_values(tbl) ==
    {q \in {[i \in DOMAIN tbl |-> tbl[f[i]]] : f \in Permutations(DOMAIN tbl)} :
        \A i \in DOMAIN q : \A j \in DOMAIN q : i < j => q[i].Saldo >= q[j].Saldo}

key3(r) == <<r.Secretaria, r.Conta, r.Tipo>>

\* k < l for two tuples of texts, column by column
RECURSIVE keys_lt(_, _)
keys_lt(k, l) ==
    IF k = <<>> THEN FALSE
    ELSE IF Head(k) = Head(l) THEN keys_lt(Tail(k), Tail(l))
    ELSE str_lt(Head(k), Head(l))

RECURSIVE sorted_keys(_)
sorted_keys(S) ==
    IF S = {} THEN <<>>
    ELSE LET m == CHOOSE x \in S : \A y \in S : x = y \/ keys_lt(x, y)
         IN  <<m>> \o sorted_keys(S \ {m})

\* groupby(["_dept", "_account", "_fundtype"], as_index=False)["_amount"].sum()
groupby3_sum(table) ==
    LET ks == sorted_keys({<<table[i]._dept.s, table[i]._account.s, table[i]._fundtype.s>> :
                              i \in DOMAIN table})
    IN  [j \in DOMAIN ks |->
            [Secretaria |-> ks[j][1], Conta |-> ks[j][2], Tipo |-> ks[j][3],
             Saldo |-> sum_where(table,
                          [i \in DOMAIN table |->
                              <<table[i]._dept.s, table[i]._account.s,
                                table[i]._fundtype.s>> = ks[j]])]]

\* sort_values(["Secretaria", "Conta", "Tipo de Recurso"]) of the table shown
RECURSIVE sort_values3(_)
sort_values3(tbl) ==
    IF tbl = <<>> THEN <<>>
    ELSE LET m == CHOOSE i \in DOMAIN tbl :
                      \A j \in DOMAIN tbl :
                          \/ keys_lt(key3(tbl[i]), key3(tbl[j]))
                          \/ (key3(tbl[i]) = key3(tbl[j]) /\ i <= j)
         IN  <<tbl[m]>> \o sort_values3(SubSeq(tbl, 1, m - 1) \o SubSeq(tbl, m + 1, Len(tbl)))

\* lines 179-241: the total and the four tables (the monthly chart is drawn
\* from df_f and kept nowhere)
Resumos ==
    /\ pc = "resumos"
    /\ total_geral' = sum_where(df_f, [i \in DOMAIN df_f |-> TRUE])
    /\ by_dept' \in sort_values(groupby_sum(df_f, "_dept"))
    /\ by_acct' \in sort_values(groupby_sum(df_f, "_account"))
    /\ by_fund' \in sort_values(groupby_sum(df_f, "_fundtype"))
    /\ cube' = groupby3_sum(df_f)
    /\ pc' = "exports"
    /\ UNCHANGED <<uploaded, message, df_raw, has_date, has_type, has_conta,
                   has_tipo_recurso, credit_tokens, debit_tokens, df, sel_depts,
                   sel_accts, sel_funds, d_ini, d_fim, df_f, exports>>

\* Series.round(2): the amounts are whole centavos already
round2(tbl) == [i \in DOMAIN tbl |-> [tbl[i] EXCEPT !.Saldo = tbl[i].Saldo]]

\* lines 244-274: the CSV of the three rollups and the workbook of the four tables
Exports ==
    /\ pc = "exports"
    /\ exports' = [csv |-> <<round2(by_dept), round2(by_acct), round2(by_fund)>>,
                   xlsx |-> [Por_Secretaria |-> round2(by_dept),
                             Por_Conta |-> round2(by_acct),
                             Por_Tipo_Recurso |-> round2(by_fund),
                             Cruzado |-> round2(cube)]]
    /\ pc' = "done"
    /\ UNCHANGED <<uploaded, message, df_raw, has_date, has_type, has_conta,
                   has_tipo_recurso, credit_tokens, debit_tokens, df, sel_depts,
                   sel_accts, sel_funds, d_ini, d_fim, df_f, total_geral,
                   by_dept, by_acct, by_fund, cube>>

Next == Input \/ OpenExcel \/ ReadSheet \/ Mapping \/ Datas \/ ValorAssinado
        \/ Chaves \/ Limpeza \/ Filtros \/ Resumos \/ Exports

Spec == Init /\ [][Next]_vars

-----------------------------------------------------------------------------
(* sign_by_type on its own: one row, any pair of token lists *)

TokenTexts == {<<"C">>, <<" ", "c", " ">>, <<"D">>, <<" ">>}

TokenLists == SeqsUpTo(TokenTexts, MaxTokens) \ {<<>>}

SignTipos == {Str(<<"C">>), Str(<<" ", "c">>), Str(<<"D", " ">>), Str(<<"X">>), NA}

SignValores == {Num(3), Num(-2), Num(0), Str(<<"-", "4">>), Str(<<"x">>)}

InitSign ==
    /\ pc = "valor"
    /\ uploaded = TRUE
    /\ message = "none"
    /\ \E v \in SignValores, t \in SignTipos :
          df_raw = <<Row(Str(<<"A">>), NA, NA, v, NA, t)>>
    /\ has_date = FALSE /\ has_type \in BOOLEAN
    /\ has_conta = FALSE /\ has_tipo_recurso = FALSE
    /\ credit_tokens \in (IF has_type THEN TokenLists ELSE {<<>>})
    /\ debit_tokens \in (IF has_type THEN TokenLists ELSE {<<>>})
    /\ df = assign(df_raw, "_date", [i \in DOMAIN df_raw |-> NA])
    /\ sel_depts = {} /\ sel_accts = {} /\ sel_funds = {}
    /\ d_ini = None /\ d_fim = None
    /\ df_f = Unset
    /\ total_geral = 0
    /\ by_dept = Unset /\ by_acct = Unset /\ by_fund = Unset /\ cube = Unset
    /\ exports = Unset

NextSign == ValorAssinado

SpecSign == InitSign /\ [][NextSign]_vars

-----------------------------------------------------------------------------
(* The fund-type column on its own: one row, any casing and padding *)

FundTexts ==
    {e[1] : e \in FundMap} \cup {<<"x">>, <<"l", "i", "v", "r", "e", "s">>}

capitalize(t) == IF t = <<>> THEN t ELSE <<upper_char(Head(t))>> \o Tail(t)

Blanks(n) == [i \in 1..n |-> " "]

FundCells ==
    {NA} \cup
    {Str(Blanks(l) \o t \o Blanks(r)) :
        t \in UNION {{b, upper(b), capitalize(b)} : b \in FundTexts},
        l \in 0..MaxPad, r \in 0..MaxPad}

InitFund ==
    /\ pc = "chaves"
    /\ uploaded = TRUE
    /\ message = "none"
    /\ \E c \in FundCells :
          df_raw = <<Row(Str(<<"A">>), Str(<<"1">>), c, Num(1), NA, NA)>>
    /\ has_date = FALSE /\ has_type = FALSE
    /\ has_conta \in BOOLEAN /\ has_tipo_recurso \in BOOLEAN
    /\ credit_tokens = <<>> /\ debit_tokens = <<>>
    /\ df = assign(assign(df_raw, "_date", [i \in DOMAIN df_raw |-> NA]),
                   "_amount", sign_by_type(df_raw, TRUE, <<>>, <<>>))
    /\ sel_depts = {} /\ sel_accts = {} /\ sel_funds = {}
    /\ d_ini = None /\ d_fim = None
    /\ df_f = Unset
    /\ total_geral = 0
    /\ by_dept = Unset /\ by_acct = Unset /\ by_fund = Unset /\ cube = Unset
    /\ exports = Unset

NextFund == Chaves

SpecFund == InitFund /\ [][NextFund]_vars

-----------------------------------------------------------------------------
(* Properties of sign_by_type, under SpecSign *)

\* the row's type token, trimmed and upper-cased
TipoToken(i) == upper(strip(astype_str(df[i].lcto).s))

\* t is one of the tokens, each trimmed and upper-cased, the empty ones left out
InTokens(t, tokens) ==
    \E j \in DOMAIN tokens : strip(tokens[j]) # <<>> /\ upper(strip(tokens[j])) = t

IsCredit(i) == InTokens(TipoToken(i), credit_tokens)
IsDebit(i) == InTokens(TipoToken(i), debit_tokens)

Raw(i) == to_numeric(df[i].valor)

Signed == pc = "chaves"

\* C1 as stated: a row whose type token is in both the credit and the debit
\* set gets +abs(raw amount)
C1_BothIsCredit ==
    (Signed /\ has_type) =>
        \A i \in DOMAIN df :
            (IsCredit(i) /\ IsDebit(i) /\ notna(Raw(i))) =>
                df[i]._amount = Num(abs(Raw(i).n))

\* C1 amended: a row whose type token is in both the credit and the debit set
\* resolves to debit, its signed amount is -abs(raw amount)
C1_BothIsDebit ==
    (Signed /\ has_type) =>
        \A i \in DOMAIN df :
            (IsCredit(i) /\ IsDebit(i) /\ notna(Raw(i))) =>
                df[i]._amount = Num(-abs(Raw(i).n))

C1_Witness ==
    /\ Signed /\ has_type
    /\ \E i \in DOMAIN df :
          /\ IsCredit(i) /\ IsDebit(i)
          /\ notna(Raw(i)) /\ Raw(i).n > 0
          /\ df[i]._amount = Num(-Raw(i).n)

\* C2 as stated: raw when no type column; +abs(raw) when the token is in the
\* credit set; -abs(raw) when it is in the debit set; raw when in neither
C2_SignTable ==
    Signed =>
        \A i \in DOMAIN df :
            notna(Raw(i)) =>
                /\ ~has_type => df[i]._amount = Raw(i)
                /\ (has_type /\ IsCredit(i)) => df[i]._amount = Num(abs(Raw(i).n))
                /\ (has_type /\ IsDebit(i)) => df[i]._amount = Num(-abs(Raw(i).n))
                /\ (has_type /\ ~IsCredit(i) /\ ~IsDebit(i)) => df[i]._amount = Raw(i)

\* C2 amended: raw when no type column; -abs(raw) when the token is in the
\* debit set; +abs(raw) when it is in the credit set and not in the debit set;
\* raw when in neither
C2_SignTableDebitFirst ==
    Signed =>
        \A i \in DOMAIN df :
            notna(Raw(i)) =>
                /\ ~has_type => df[i]._amount = Raw(i)
                /\ (has_type /\ IsCredit(i) /\ ~IsDebit(i)) =>
                        df[i]._amount = Num(abs(Raw(i).n))
                /\ (has_type /\ IsDebit(i)) => df[i]._amount = Num(-abs(Raw(i).n))
                /\ (has_type /\ ~IsCredit(i) /\ ~IsDebit(i)) => df[i]._amount = Raw(i)

\* a negative amount made positive by a credit token that matches only once
\* both the token and the cell are trimmed and upper-cased
C2_Witness ==
    /\ Signed /\ has_type
    /\ \E i \in DOMAIN df :
          /\ IsCredit(i) /\ ~IsDebit(i)
          /\ astype_str(df[i].lcto).s \notin Range(credit_tokens)
          /\ TipoToken(i) \notin Range(credit_tokens)
          /\ notna(Raw(i)) /\ Raw(i).n < 0
          /\ df[i]._amount = Num(-Raw(i).n)

-----------------------------------------------------------------------------
(* Properties of the fund-type column, under SpecFund *)

Livre == <<"L", "i", "v", "r", "e">>
Vinculado == <<"V", "i", "n", "c", "u", "l", "a", "d", "o">>

LivreKeys ==
    { <<"l", "i", "v", "r", "e">>,
      <<"n", "a", "o", "-", "v", "i", "n", "c", "u", "l", "a", "d", "o">>,
      <<"n", "a~", "o", "-", "v", "i", "n", "c", "u", "l", "a", "d", "o">> }

VinculadoKeys ==
    { <<"v", "i", "n", "c", "u", "l", "a", "d", "o">>,
      <<"v", "i", "n", "c", "u", "l", "a", "d", "a">>,
      <<"n", "a", "o", " ", "l", "i", "v", "r", "e">>,
      <<"n", "a~", "o", " ", "l", "i", "v", "r", "e">> }

TipoText(i) == astype_str(df[i].tipo).s
TipoKey(i) == lower(strip(TipoText(i)))

Keyed == pc = "limpeza" /\ has_tipo_recurso

\* C9: each synonym maps, whatever its case and padding, to its canonical
\* value; any other value passes through trimmed; 'Livre' and 'Vinculado' map
\* to themselves; canonicalizing a canonicalized value changes nothing
C9_Canonical ==
    /\ fundtype(Str(Livre)) = Str(Livre)
    /\ fundtype(Str(Vinculado)) = Str(Vinculado)
    /\ Keyed =>
          \A i \in DOMAIN df :
              /\ TipoKey(i) \in LivreKeys => df[i]._fundtype = Str(Livre)
              /\ TipoKey(i) \in VinculadoKeys => df[i]._fundtype = Str(Vinculado)
              /\ TipoKey(i) \notin (LivreKeys \cup VinculadoKeys) =>
                    df[i]._fundtype = Str(strip(TipoText(i)))
              /\ fundtype(df[i]._fundtype) = df[i]._fundtype

\* an upper-case, padded synonym brought to its canonical value
C9_Witness ==
    /\ Keyed
    /\ \E i \in DOMAIN df :
          /\ TipoKey(i) \in VinculadoKeys
          /\ strip(TipoText(i)) # TipoText(i)
          /\ upper(TipoText(i)) = TipoText(i)
          /\ df[i]._fundtype = Str(Vinculado)

-----------------------------------------------------------------------------
(* Properties of the script, under Spec *)

NoData == "Nenhum dado apos aplicar os filtros."

\* the cleaning step has run
Cleaned == pc \in {"filtros", "resumos", "exports", "done"} \/ message = NoData

\* the filter step has run
Filtered == pc \in {"resumos", "exports", "done"} \/ message = NoData

\* the rollups have been computed
Summed == pc \in {"exports", "done"}

\* C3: every retained record has a department and an amount, and no source
\* row with a missing or blank department cell or an unparsable amount is
\* among the retained records
C3_Cleaned ==
    Cleaned =>
        \A i \in DOMAIN df :
            /\ notna(df[i]._dept) /\ df[i]._dept.s # <<>>
            /\ notna(df[i]._amount)
            /\ notna(df[i].secretaria)
            /\ strip(astype_str(df[i].secretaria).s) # <<>>
            /\ notna(to_numeric(df[i].valor))

DateActive == has_date /\ notna(d_ini) /\ notna(d_fim)

\* C4: an empty selection of departments, of accounts or of fund types, the
\* other selections at their defaults and no date filter, returns the whole
\* record set
C4_EmptyIsAll ==
    (Filtered /\ ~DateActive) =>
        /\ (/\ sel_depts = {}
            /\ sel_accts = column(df, "_account")
            /\ sel_funds = column(df, "_fundtype")) => df_f = df
        /\ (/\ sel_depts = column(df, "_dept")
            /\ sel_accts = {}
            /\ sel_funds = column(df, "_fundtype")) => df_f = df
        /\ (/\ sel_depts = column(df, "_dept")
            /\ sel_accts = column(df, "_account")
            /\ sel_funds = {}) => df_f = df

\* no department selected, two departments in the data, every row returned
C4_Witness ==
    /\ Filtered /\ ~DateActive
    /\ sel_depts = {} /\ Cardinality(column(df, "_dept")) = 2
    /\ sel_accts = column(df, "_account")
    /\ sel_funds = column(df, "_fundtype")
    /\ df_f = df /\ Len(df_f) = 2

\* the date ranges within the current one
InnerPeriods ==
    IF DateActive
    THEN {p \in periodos(df, has_date) : p[1].n >= d_ini.n /\ p[2].n <= d_fim.n}
    ELSE {<<None, None>>}

\* the filter settings each of whose selections is part of the current one and
\* whose date range lies within the current one
Narrowings ==
    (SUBSET sel_depts) \X (SUBSET sel_accts) \X (SUBSET sel_funds) \X InnerPeriods

Rows(f) == Len(filtros(df, has_date, f[1], f[2], f[3], f[4][1], f[4][2]))

\* C5 as stated: a setting narrower than the current one, a selection shrunk
\* down to the empty set included, passes at most as many rows
C5_NarrowerIsFewer ==
    Filtered => \A f \in Narrowings : Rows(f) <= Len(df_f)

\* C5 amended: a setting narrower than the current one, no non-empty
\* selection shrunk down to the empty set, passes at most as many rows
C5_NarrowerNonEmptyIsFewer ==
    Filtered =>
        \A f \in Narrowings :
            (/\ f[1] = {} => sel_depts = {}
             /\ f[2] = {} => sel_accts = {}
             /\ f[3] = {} => sel_funds = {}) => Rows(f) <= Len(df_f)

\* a department and a day taken out of the selection, fewer rows passing
C5_Witness ==
    /\ Filtered /\ DateActive
    /\ \E f \in Narrowings :
          /\ f[1] # {} /\ f[1] # sel_depts
          /\ f[2] # {} /\ f[3] # {}
          /\ f[4] # <<d_ini, d_fim>>
          /\ Rows(f) < Len(df_f)

PassSel(i) ==
    /\ sel_depts = {} \/ df[i]._dept.s \in sel_depts
    /\ sel_accts = {} \/ df[i]._account.s \in sel_accts
    /\ sel_funds = {} \/ df[i]._fundtype.s \in sel_funds

DayOf(i) == df[i]._date.n \div TicksPerDay

PassDate(i) == notna(df[i]._date) /\ d_ini.n <= DayOf(i) /\ DayOf(i) <= d_fim.n

\* C6: with a date range active, the records kept are those that pass the
\* selections, have a date, and whose day lies in [d_ini, d_fim], end days
\* included; a record without a date is never kept
C6_DateRange ==
    (Filtered /\ DateActive) =>
        /\ df_f = select(df, [i \in DOMAIN df |-> PassSel(i) /\ PassDate(i)])
        /\ \A i \in DOMAIN df_f : notna(df_f[i]._date)

\* the default range, a record without a date left out, a record late on the
\* last day kept
C6_Witness ==
    /\ Filtered /\ DateActive
    /\ d_ini.n = Min(days(df)) /\ d_fim.n = Max(days(df))
    /\ \E i \in DOMAIN df : isna(df[i]._date) /\ PassSel(i)
    /\ \E i \in DOMAIN df_f :
          /\ df_f[i]._date.n \div TicksPerDay = d_fim.n
          /\ df_f[i]._date.n % TicksPerDay > 0
    /\ Len(df_f) < Len(df)

NoOutput == by_dept = Unset /\ by_acct = Unset /\ by_fund = Unset
            /\ cube = Unset /\ exports = Unset

C7_Reached ==
    /\ (pc \in {"resumos", "exports", "done"} \/ ~NoOutput) =>
          uploaded /\ ~empty(df_raw) /\ df_f # Unset /\ df_f # <<>> /\ message = "none"
    /\ pc = "stopped" => message # "none" /\ NoOutput
    /\ message # "none" => pc = "stopped"

\* C7: the rollups and the exports are reached only with a source, a
\* non-empty sheet and a non-empty filtered set; a halt shows its message, has
\* produced no rollup and no export, and nothing follows it
C7_HaltsAreTerminal ==
    /\ []C7_Reached
    /\ [][pc = "stopped" => (pc' = "stopped" /\ NoOutput')]_vars

\* the filters eliminate every row of a non-empty record set
C7_Witness ==
    /\ pc = "stopped" /\ message = NoData
    /\ df # <<>> /\ df_f = <<>> /\ NoOutput

\* the sum of the amounts of the records of table at the indices I
RECURSIVE AmountOver(_, _)
AmountOver(table, I) ==
    IF I = {} THEN 0
    ELSE LET i == CHOOSE x \in I : TRUE
         IN  table[i]._amount.n + AmountOver(table, I \ {i})

RECURSIVE SaldoSum(_)
SaldoSum(tbl) == IF tbl = <<>> THEN 0 ELSE Head(tbl).Saldo + SaldoSum(Tail(tbl))

GroupSum(tbl, col) ==
    /\ {tbl[j].key : j \in DOMAIN tbl} = {df_f[i][col].s : i \in DOMAIN df_f}
    /\ \A j \in DOMAIN tbl : \A k \in DOMAIN tbl : tbl[j].key = tbl[k].key => j = k
    /\ \A j \in DOMAIN tbl :
          tbl[j].Saldo = AmountOver(df_f, {i \in DOMAIN df_f : df_f[i][col].s = tbl[j].key})
    /\ SaldoSum(tbl) = total_geral

\* C8: each rollup has one row per key of the filtered records, the row's
\* balance is the sum of the amounts of the records with that key, and the
\* balances of a rollup add up to the total shown
C8_GroupSum ==
    Summed =>
        /\ total_geral = AmountOver(df_f, DOMAIN df_f)
        /\ GroupSum(by_dept, "_dept")
        /\ GroupSum(by_acct, "_account")
        /\ GroupSum(by_fund, "_fundtype")

\* two records of one department summed, another department beside it
C8_Witness ==
    /\ Summed
    /\ Len(df_f) = 2 /\ Len(by_dept) = 1 /\ Len(by_acct) = 2
    /\ df_f[1]._amount.n # 0 /\ df_f[2]._amount.n # 0
    /\ by_dept[1].Saldo = df_f[1]._amount.n + df_f[2]._amount.n

Descending(tbl) ==
    \A j \in DOMAIN tbl : \A k \in DOMAIN tbl : j < k => tbl[j].Saldo >= tbl[k].Saldo

\* C10: each rollup is in non-increasing order of balance; the cross table as
\* shown is in ascending order of (department, account, fund type) and has
\* one row per such triple of the filtered records
C10_SortPolicy ==
    Summed =>
        /\ Descending(by_dept) /\ Descending(by_acct) /\ Descending(by_fund)
        /\ LET shown == sort_values3(cube) IN
              /\ \A j \in DOMAIN shown : \A k \in DOMAIN shown :
                    j < k => keys_lt(key3(shown[j]), key3(shown[k]))
              /\ {key3(shown[j]) : j \in DOMAIN shown}
                    = {<<df_f[i]._dept.s, df_f[i]._account.s, df_f[i]._fundtype.s>> :
                          i \in DOMAIN df_f}
              /\ Len(shown) = Len(cube)

\* two departments of different balance, the larger first, and two triples
C10_Witness ==
    /\ Summed
    /\ Len(by_dept) = 2 /\ by_dept[1].Saldo > by_dept[2].Saldo
    /\ str_lt(by_dept[2].key, by_dept[1].key)
    /\ Len(cube) = 2

====
